---- MODULE Spec2Model ----
(***************************************************************************)
(* Model of the CertIntel upload route (POST /api/upload-image), the image *)
(* route (GET and DELETE /api/images/[fileId]) and the AuthProvider        *)
(* auth/profile adapter.                                                   *)
(*                                                                         *)
(* The two routes share the GridFS bucket `store`.  Every request runs in  *)
(* a slot of `req`; a handler advances by one action per await on the      *)
(* database, the bucket or the conversion service, so requests interleave  *)
(* where the code suspends on shared state.  connectToDb, the bucket, the  *)
(* file system and the conversion service can fail wherever the code       *)
(* catches their errors.  The fields of a request record that no handler   *)
(* reads (parsed, uploadType, ownerAtStart, found, foundOwner, storeWrites,*)
(* storeReads, streamsOpened, flaskCalls, flask, converted, removed) are   *)
(* history kept for the properties.  The AuthProvider is a separate state  *)
(* machine over its own variables (SpecAuth).                              *)
(***************************************************************************)
EXTENDS Integers, Sequences, FiniteSets, TLC

(* ---------------------------- bounds ----------------------------------- *)
\* request slots that can be in flight at the same time
MaxProcs == 2
\* ObjectIds the bucket hands out
MaxFiles == 2
\* parts (text fields and files) of one multipart form
MaxParts == 2
\* entries of the conversion service's converted_files array
MaxPages == 2

Procs == 1..MaxProcs

(* ---------------------------- inputs ----------------------------------- *)
Users == {"u1", "u2"}

\* A file name is a sequence of characters.
FileName == <<"a", " ", "b">>

SafeChars == {"a", "b", "_", ".", "-"}

SUPPORTED_IMAGE_TYPES == {"image/jpeg", "image/png", "image/gif", "image/webp"}
SUPPORTED_PDF_TYPE == "application/pdf"

\* declared content types a client sends; "" is a File without a type
FileTypes == {SUPPORTED_PDF_TYPE, "image/png", "image/webp", "text/plain", ""}

\* the parts a multipart form is made of
TextParts == {[isFile |-> FALSE, key |-> "userId", value |-> v,
               name |-> <<>>, type |-> ""] : v \in Users \cup {""}}
FileParts ==
    {[isFile |-> TRUE, key |-> "file", value |-> "", name |-> FileName, type |-> t]
        : t \in FileTypes}
    \cup {[isFile |-> TRUE, key |-> "attachment", value |-> "", name |-> FileName,
           type |-> "image/png"]}
Parts == TextParts \cup FileParts

\* the fileId path parameter: a well-formed ObjectId string or anything else
FileIdParams == {[valid |-> TRUE, oid |-> i] : i \in 1..MaxFiles}
                \cup {[valid |-> FALSE, oid |-> 0]}

\* the userId query parameter: searchParams.get returns null when absent
NoParam == "null"
UserIdParams == Users \cup {"", NoParam}

(* ------------------------- pure helpers -------------------------------- *)
\* value.name.replace(/[^a-zA-Z0-9_.-]/g, '_')
Sanitize(name) == [i \in DOMAIN name |-> IF name[i] \in SafeChars THEN name[i] ELSE "_"]

\* path.join(os.tmpdir(), `nextjs_temp_${reqId}_${Date.now()}_${safeOriginalName}`);
\* the reqId component is the slot the request runs in
TempFilePath(now, name) == [t |-> now, name |-> Sanitize(name)]

\* ObjectId.isValid(fileId)
IsValid(fileId) == fileId.valid

\* JavaScript truthiness of a string or null
Truthy(s) == s # "" /\ s # NoParam

\* A text field of the parsed form: undefined, a string, or an array.
Undefined == [isArr |-> FALSE, vals |-> <<>>]
FieldTruthy(f) == f.isArr \/ (Len(f.vals) = 1 /\ f.vals[1] # "")

\* parseFormRevised, the text-field branch
AddField(f, value) ==
    IF FieldTruthy(f)
    THEN [isArr |-> TRUE, vals |-> Append(f.vals, value)]
    ELSE [isArr |-> FALSE, vals |-> <<value>>]

\* Array.isArray(userIdField) ? userIdField[0] : userIdField
UserIdOf(f) == IF Len(f.vals) = 0 THEN NoParam ELSE f.vals[1]

\* filesOutput[key] = {...}
PutFile(files, key, entry) ==
    [k \in DOMAIN files \cup {key} |-> IF k = key THEN entry ELSE files[k]]

\* Object.values(files).forEach(... tempFilePathsToDelete.push(filepath))
RegisteredPaths(files) == {files[k].filepath : k \in DOMAIN files}

NoFiles == [k \in {} |-> 0]

(* ----------------------------- state ----------------------------------- *)
VARIABLES
    store,        \* the GridFS bucket: ObjectId -> file document
    nextId,       \* the next ObjectId the driver generates
    flaskUrlSet,  \* whether NEXT_PUBLIC_FLASK_SERVER_URL is configured
    req,          \* the request running in each slot
    user, userId, userProfile, loading,    \* AuthProvider state
    profileListenerUnsubscribe,            \* the closure variable of the effect
    listeners,                             \* profile listeners attached in Firestore
    authSubscribed,                        \* the auth-state listener is attached
    mounted,                               \* "no", "yes" or "unmounted"
    cb,                                    \* position inside the auth callback
    firebaseUser,                          \* the user the last auth event reported
    authChanges                            \* auth events delivered so far

apiVars == <<store, nextId, flaskUrlSet, req>>
authVars == <<user, userId, userProfile, loading, profileListenerUnsubscribe,
              listeners, authSubscribed, mounted, cb, firebaseUser, authChanges>>
vars == <<apiVars, authVars>>

NoResp == 0

\* the form has no part in the 'file' field
NoType == "none"

Idle == [kind |-> "none", pc |-> "idle", status |-> NoResp, errorKey |-> "",
         results |-> <<>>,
         \* POST
         parsed |-> FALSE, userId |-> NoParam, uploadType |-> NoType,
         fileType |-> "", originalName |-> <<>>,
         tempFilePathsToDelete |-> {}, scratch |-> {},
         streamId |-> 0, stream |-> "none",
         storeWrites |-> {}, flaskCalls |-> 0, flask |-> "none", converted |-> <<>>,
         \* GET / DELETE
         fileId |-> [valid |-> FALSE, oid |-> 0], found |-> FALSE,
         ownerAtStart |-> NoParam, foundOwner |-> NoParam, foundType |-> "",
         streamsOpened |-> 0,
         storeReads |-> 0, removed |-> {}, body |-> "none"]

(* ------------------------- initial state ------------------------------- *)
ApiInit ==
    /\ store = [i \in {} |-> 0]
    /\ nextId = 1
    /\ flaskUrlSet \in BOOLEAN
    /\ req = [p \in Procs |-> Idle]

(* ------------------- POST /api/upload-image ---------------------------- *)
\* the finally block: unlink every registered path that still exists
Cleanup(r) == r.scratch \ r.tempFilePathsToDelete

\* a return or a caught throw inside the outer try, followed by the finally block
Finish(r, status, errorKey) ==
    [r EXCEPT !.pc = "done", !.status = status, !.errorKey = errorKey,
              !.scratch = Cleanup(r)]

\* uploads that have not yet asked the driver for an ObjectId
PendingUploads ==
    Cardinality({q \in Procs : req[q].kind = "POST"
                               /\ req[q].pc \in {"connect", "formData"}})

\* entry of the handler up to `await connectToDb()`
PostStart(p) ==
    /\ req[p].pc = "idle"
    /\ nextId + PendingUploads <= MaxFiles
    /\ req' = [req EXCEPT ![p] =
                 IF ~flaskUrlSet
                 THEN [Idle EXCEPT !.kind = "POST", !.pc = "done", !.status = 500,
                                   !.errorKey = "FLASK_URL_MISSING"]
                 ELSE [Idle EXCEPT !.kind = "POST", !.pc = "connect"]]
    /\ UNCHANGED <<store, nextId, flaskUrlSet, authVars>>

\* connectToDb() resolves with a usable bucket, or throws / returns no bucket
PostConnect(p) ==
    /\ req[p].kind = "POST" /\ req[p].pc = "connect"
    /\ \E ok \in BOOLEAN :
         req' = [req EXCEPT ![p] =
                   IF ok THEN [@ EXCEPT !.pc = "formData"]
                   ELSE Finish(@, 500, "DB_CONNECTION")]
    /\ UNCHANGED <<store, nextId, flaskUrlSet, authVars>>

\* ---- parseFormRevised ----
\* The locals of one run of parseFormRevised: the fields and files collected so
\* far, the last Date.now() reading, the files in the temp directory, and
\* whether the run threw.
ParseStart == [userIdField |-> Undefined, files |-> NoFiles, now |-> 0,
               scratch |-> {}, threw |-> FALSE]

\* the loop body for a text entry
ParseField(ps, part) == [ps EXCEPT !.userIdField = AddField(@, part.value)]

\* the loop body for a File entry: Date.now() has advanced by `tick` since the
\* previous reading; the write succeeds ("ok"), or arrayBuffer/writeFile throws
\* leaving nothing ("fail") or leaving a partly written file ("partial")
ParseFile(ps, part, tick, outcome) ==
    LET now == ps.now + tick
        tempFilePath == TempFilePath(now, part.name)
        entry == [filepath |-> tempFilePath, originalFilename |-> part.name,
                  mimetype |-> part.type]
    IN IF outcome = "ok"
       THEN [ps EXCEPT !.now = now, !.scratch = @ \cup {tempFilePath},
                       !.files = PutFile(@, part.key, entry)]
       ELSE [ps EXCEPT !.now = now, !.threw = TRUE,
                       !.scratch = IF outcome = "partial"
                                   THEN @ \cup {tempFilePath} ELSE @]

\* one iteration of `for (const [key, value] of formData.entries())`
ParseStep(S) ==
    {ParseField(ps, part) : ps \in S, part \in TextParts}
    \cup {ParseFile(ps, part, tick, "ok") : ps \in S, part \in FileParts, tick \in 0..1}

ParseThrow(S) ==
    {ParseFile(ps, part, tick, outcome) :
        ps \in S, part \in FileParts, tick \in 0..1, outcome \in {"fail", "partial"}}

\* the locals after k iterations that did not throw, for every form of k entries
RECURSIVE ParsedAfter(_)
ParsedAfter(k) == IF k = 0 THEN {ParseStart} ELSE ParseStep(ParsedAfter(k - 1))

\* every way parseFormRevised ends on a form of at most MaxParts entries:
\* it returns {fields, files}, or it throws at some File entry
ParseOutcomes ==
    UNION {ParsedAfter(k) : k \in 0..MaxParts}
    \cup UNION {ParseThrow(ParsedAfter(k - 1)) : k \in 1..MaxParts}

\* faulty variant: the userId check is missing
Validate_NoUserCheck(uid, files) ==
    IF "file" \notin DOMAIN files THEN "NO_FILE_UPLOADED" ELSE "ok"

\* the userId and file checks of POST
Validate(uid, files) ==
    IF ~Truthy(uid) THEN "MISSING_USER_ID"
    ELSE IF "file" \notin DOMAIN files THEN "NO_FILE_UPLOADED"
    ELSE "ok"

\* faulty variant: whatever is not a PDF is taken for an image
Classify_NoReject(fileType) ==
    IF fileType = SUPPORTED_PDF_TYPE THEN "pdf" ELSE "image"

\* the conditions of the type dispatch of POST
Classify(fileType) ==
    IF fileType = SUPPORTED_PDF_TYPE THEN "pdf"
    ELSE IF fileType # "" /\ fileType \in SUPPORTED_IMAGE_TYPES THEN "image"
    ELSE "unsupported"

\* ---- POST, from `await parseFormRevised` to the next await on the store or
\* the conversion service: registration of the temp paths, the userId and file
\* checks, the type dispatch.  `id` is the ObjectId openUploadStream generates,
\* `readOk` whether fsPromises.readFile succeeds.
Dispatch(r0, ps, id, readOk) ==
    IF ps.threw THEN Finish([r0 EXCEPT !.scratch = ps.scratch], 500, "FORM_PARSE")
    ELSE
    LET r1 == [r0 EXCEPT !.parsed = TRUE,
                         !.scratch = ps.scratch,
                         !.tempFilePathsToDelete = RegisteredPaths(ps.files),
                         !.userId = UserIdOf(ps.userIdField),
                         !.uploadType = IF "file" \in DOMAIN ps.files
                                        THEN ps.files["file"].mimetype ELSE NoType]
        check == Validate(r1.userId, ps.files)
    IN IF check # "ok" THEN Finish(r1, 400, check)
       ELSE LET uploadedFileEntry == ps.files["file"]
                r2 == [r1 EXCEPT !.originalName = uploadedFileEntry.originalFilename,
                                 !.fileType = uploadedFileEntry.mimetype]
            IN CASE Classify(r2.fileType) = "pdf" ->
                      IF readOk
                      THEN [r2 EXCEPT !.pc = "converting", !.flaskCalls = @ + 1,
                                      !.flask = "pending"]
                      ELSE Finish(r2, 500, "READ_FILE")
                 [] Classify(r2.fileType) = "image" ->
                      [r2 EXCEPT !.pc = "streaming", !.streamId = id, !.stream = "open"]
                 [] OTHER -> Finish(r2, 415, "UNSUPPORTED_FILE_TYPE")

\* `await req.formData()` fails, or the form is parsed and dispatched.  The awaits
\* inside parseFormRevised touch only this request's temp files, so the parse
\* is one step.
PostParse(p) ==
    /\ req[p].kind = "POST" /\ req[p].pc = "formData"
    /\ \/ /\ req' = [req EXCEPT ![p] = Finish(@, 500, "FORM_DATA")]
          /\ UNCHANGED nextId
       \/ \E ps \in ParseOutcomes, readOk \in BOOLEAN :
            LET r == Dispatch(req[p], ps, nextId, readOk)
            IN /\ req' = [req EXCEPT ![p] = r]
               /\ nextId' = IF r.pc = "streaming" THEN nextId + 1 ELSE nextId
    /\ UNCHANGED <<store, flaskUrlSet, authVars>>

\* what the conversion service answers: converted_files with n page descriptors
ConvertedFiles(r, n) ==
    [i \in 1..n |-> [originalName |-> r.originalName, fileId |-> -i,
                     filename |-> [userId |-> r.userId, name |-> Sanitize(r.originalName)],
                     pageNumber |-> i]]

\* faulty variant: the entries carry the type of the uploaded file
MapConverted_UploadType(converted) ==
    [i \in DOMAIN converted |->
        [originalName |-> converted[i].originalName, fileId |-> converted[i].fileId,
         filename |-> converted[i].filename, contentType |-> SUPPORTED_PDF_TYPE,
         pageNumber |-> converted[i].pageNumber]]

\* results = flaskResult.converted_files.map(...)
MapConverted(converted) ==
    [i \in DOMAIN converted |->
        [originalName |-> converted[i].originalName, fileId |-> converted[i].fileId,
         filename |-> converted[i].filename, contentType |-> "image/png",
         pageNumber |-> converted[i].pageNumber]]

FlaskFailures == {"fetch failed", "not ok", "bad json", "no converted_files"}

\* the fetch to the conversion service settles
PostFlaskResponse(p) ==
    /\ req[p].kind = "POST" /\ req[p].pc = "converting"
    /\ \/ \E n \in 0..MaxPages :
            LET converted_files == ConvertedFiles(req[p], n)
            IN req' = [req EXCEPT ![p] =
                         Finish([@ EXCEPT !.flask = "ok", !.converted = converted_files,
                                          !.results = MapConverted(converted_files)],
                                201, "")]
       \/ \E f \in FlaskFailures :
            req' = [req EXCEPT ![p] = Finish([@ EXCEPT !.flask = f], 500, f)]
    /\ UNCHANGED <<store, nextId, flaskUrlSet, authVars>>

\* faulty variant: the content type of the document is fixed
FileDoc_FixedType(r) ==
    [contentType |-> "image/png",
     filename |-> [userId |-> r.userId, name |-> Sanitize(r.originalName)],
     metadata |-> [originalName |-> r.originalName, userId |-> r.userId,
                   sourceContentType |-> r.fileType]]

\* the file document GridFS writes when the upload stream finishes
FileDoc(r) ==
    [contentType |-> r.fileType,
     filename |-> [userId |-> r.userId, name |-> Sanitize(r.originalName)],
     metadata |-> [originalName |-> r.originalName, userId |-> r.userId,
                   sourceContentType |-> r.fileType]]

ImageResult(r) ==
    [originalName |-> r.originalName, fileId |-> r.streamId,
     filename |-> [userId |-> r.userId, name |-> Sanitize(r.originalName)],
     contentType |-> r.fileType, pageNumber |-> 0]

PutDoc(s, id, doc) == [k \in DOMAIN s \cup {id} |-> IF k = id THEN doc ELSE s[k]]

\* uploadStream 'finish': the object is in the bucket, results.push, resolveStream
PostStreamFinish(p) ==
    /\ req[p].kind = "POST" /\ req[p].pc = "streaming"
    /\ store' = PutDoc(store, req[p].streamId, FileDoc(req[p]))
    /\ req' = [req EXCEPT ![p] =
                 [@ EXCEPT !.pc = "respond", !.stream = "finished",
                           !.storeWrites = @ \cup {[id |-> req[p].streamId,
                                                     doc |-> FileDoc(req[p])]},
                           !.results = Append(@, ImageResult(req[p]))]]
    /\ UNCHANGED <<nextId, flaskUrlSet, authVars>>

\* readable 'error' or uploadStream 'error': rejectStream
PostStreamError(p) ==
    /\ req[p].kind = "POST" /\ req[p].pc = "streaming"
    /\ req' = [req EXCEPT ![p] = [@ EXCEPT !.pc = "respond", !.stream = "failed"]]
    /\ UNCHANGED <<store, nextId, flaskUrlSet, authVars>>

\* faulty variant: the rejection of the stream promise is not propagated
Respond_Always201(r) == Finish(r, 201, "")

\* the continuation of `await new Promise(...)`
Respond(r) ==
    IF r.stream = "finished" THEN Finish(r, 201, "")
    ELSE Finish(r, 500, "IMAGE_PROCESSING")

PostRespond(p) ==
    /\ req[p].kind = "POST" /\ req[p].pc = "respond"
    /\ req' = [req EXCEPT ![p] = Respond(@)]
    /\ UNCHANGED <<store, nextId, flaskUrlSet, authVars>>

(* ------------------- GET /api/images/[fileId] -------------------------- *)
\* the owner recorded in the metadata of the object fileId names, if there is one
OwnerOf(s, fileId) ==
    IF fileId.valid /\ fileId.oid \in DOMAIN s
    THEN s[fileId.oid].metadata.userId ELSE NoParam

\* entry of the handler up to `await connectToDb()`
GetStart(p) ==
    /\ req[p].pc = "idle"
    /\ \E fileId \in FileIdParams :
         req' = [req EXCEPT ![p] =
                   IF ~IsValid(fileId)
                   THEN [Idle EXCEPT !.kind = "GET", !.fileId = fileId, !.pc = "done",
                                     !.status = 400]
                   ELSE [Idle EXCEPT !.kind = "GET", !.fileId = fileId,
                                     !.ownerAtStart = OwnerOf(store, fileId),
                                     !.pc = "connect"]]
    /\ UNCHANGED <<store, nextId, flaskUrlSet, authVars>>

\* the catch block of GET: every error of connectToDb and find is a 500
GetCatch(r, errorKey) == [r EXCEPT !.pc = "done", !.status = 500, !.errorKey = errorKey]

GetConnect(p) ==
    /\ req[p].kind = "GET" /\ req[p].pc = "connect"
    /\ \E ok \in BOOLEAN :
         req' = [req EXCEPT ![p] =
                   IF ok THEN [@ EXCEPT !.pc = "find"]
                   ELSE GetCatch(@, "DB_CONNECTION")]
    /\ UNCHANGED <<store, nextId, flaskUrlSet, authVars>>

\* faulty variant: the empty result of find is not checked
Find_NoNotFound(r, s) ==
    [r EXCEPT !.pc = "body", !.status = 200, !.storeReads = @ + 1,
              !.streamsOpened = @ + 1, !.body = "streaming"]

\* `await bucket.find({_id}).limit(1).toArray()` and everything after it: 404,
\* or openDownloadStream and the 200 response whose body is the stream
Find(r, s) ==
    IF r.fileId.oid \notin DOMAIN s
    THEN [r EXCEPT !.pc = "done", !.status = 404, !.storeReads = @ + 1]
    ELSE [r EXCEPT !.pc = "body", !.status = 200, !.storeReads = @ + 1,
                   !.found = TRUE,
                   !.foundOwner = s[r.fileId.oid].metadata.userId,
                   !.foundType = s[r.fileId.oid].contentType,
                   !.streamsOpened = @ + 1, !.body = "streaming"]

GetFind(p) ==
    /\ req[p].kind = "GET" /\ req[p].pc = "find"
    /\ \E ok \in BOOLEAN :
         req' = [req EXCEPT ![p] =
                   IF ok THEN Find(@, store) ELSE GetCatch(@, "DB_QUERY")]
    /\ UNCHANGED <<store, nextId, flaskUrlSet, authVars>>

\* the download stream reads the file: 'end' closes the body, 'error' (the file
\* is gone, or the connection broke) errors it
GetStreamBody(p) ==
    /\ req[p].kind = "GET" /\ req[p].pc = "body"
    /\ \E ok \in BOOLEAN :
         req' = [req EXCEPT ![p] =
                   [@ EXCEPT !.pc = "done",
                             !.body = IF ok /\ req[p].fileId.oid \in DOMAIN store
                                      THEN "complete" ELSE "error"]]
    /\ UNCHANGED <<store, nextId, flaskUrlSet, authVars>>

(* ------------------ DELETE /api/images/[fileId] ------------------------ *)
\* entry of the handler up to `await connectToDb()`
DeleteStart(p) ==
    /\ req[p].pc = "idle"
    /\ \E fileId \in FileIdParams, userIdFromRequest \in UserIdParams :
         LET r == [Idle EXCEPT !.kind = "DELETE", !.fileId = fileId,
                               !.userId = userIdFromRequest,
                               !.ownerAtStart = OwnerOf(store, fileId)]
         IN req' = [req EXCEPT ![p] =
                      IF ~Truthy(userIdFromRequest)
                      THEN [r EXCEPT !.pc = "done", !.status = 401]
                      ELSE IF ~IsValid(fileId)
                      THEN [r EXCEPT !.pc = "done", !.status = 400]
                      ELSE [r EXCEPT !.pc = "connect"]]
    /\ UNCHANGED <<store, nextId, flaskUrlSet, authVars>>

\* the catch block of DELETE: every error is a 500
DeleteCatch(r, errorKey) ==
    [r EXCEPT !.pc = "done", !.status = 500, !.errorKey = errorKey]

DeleteConnect(p) ==
    /\ req[p].kind = "DELETE" /\ req[p].pc = "connect"
    /\ \E ok \in BOOLEAN :
         req' = [req EXCEPT ![p] =
                   IF ok THEN [@ EXCEPT !.pc = "findOne"]
                   ELSE DeleteCatch(@, "DB_CONNECTION")]
    /\ UNCHANGED <<store, nextId, flaskUrlSet, authVars>>

\* faulty variant: the ownership check is missing
FindOne_NoOwnerCheck(r, s) ==
    IF r.fileId.oid \notin DOMAIN s
    THEN [r EXCEPT !.pc = "done", !.status = 404, !.storeReads = @ + 1]
    ELSE [r EXCEPT !.storeReads = @ + 1, !.found = TRUE,
                   !.foundOwner = s[r.fileId.oid].metadata.userId, !.pc = "delete"]

\* faulty variant: the ownership check is inverted
FindOne_InvertedCheck(r, s) ==
    IF r.fileId.oid \notin DOMAIN s
    THEN [r EXCEPT !.pc = "done", !.status = 404, !.storeReads = @ + 1]
    ELSE LET fileMetadata == s[r.fileId.oid]
             r1 == [r EXCEPT !.storeReads = @ + 1, !.found = TRUE,
                             !.foundOwner = fileMetadata.metadata.userId]
         IN IF fileMetadata.metadata.userId = r.userId
            THEN [r1 EXCEPT !.pc = "done", !.status = 403]
            ELSE [r1 EXCEPT !.pc = "delete"]

\* `await filesCollection.findOne({_id})`, the 404 and the ownership check
FindOne(r, s) ==
    IF r.fileId.oid \notin DOMAIN s
    THEN [r EXCEPT !.pc = "done", !.status = 404, !.storeReads = @ + 1]
    ELSE LET fileMetadata == s[r.fileId.oid]
             r1 == [r EXCEPT !.storeReads = @ + 1, !.found = TRUE,
                             !.foundOwner = fileMetadata.metadata.userId]
         IN IF fileMetadata.metadata.userId # r.userId
            THEN [r1 EXCEPT !.pc = "done", !.status = 403]
            ELSE [r1 EXCEPT !.pc = "delete"]

DeleteFindOne(p) ==
    /\ req[p].kind = "DELETE" /\ req[p].pc = "findOne"
    /\ \E ok \in BOOLEAN :
         req' = [req EXCEPT ![p] =
                   IF ok THEN FindOne(@, store) ELSE DeleteCatch(@, "DB_QUERY")]
    /\ UNCHANGED <<store, nextId, flaskUrlSet, authVars>>

RemoveDoc(s, id) == [k \in DOMAIN s \ {id} |-> s[k]]

\* `await bucket.delete(objectId)`: the driver throws "File not found" when no
\* file document is deleted, and any driver error lands in the catch block
DeleteDelete(p) ==
    /\ req[p].kind = "DELETE" /\ req[p].pc = "delete"
    /\ \E ok \in BOOLEAN :
         LET id == req[p].fileId.oid
         IN IF ok /\ id \in DOMAIN store
            THEN /\ store' = RemoveDoc(store, id)
                 /\ req' = [req EXCEPT ![p] =
                              [@ EXCEPT !.pc = "done", !.status = 200,
                                        !.removed = @ \cup {id}]]
            ELSE /\ store' = store
                 /\ req' = [req EXCEPT ![p] =
                              DeleteCatch(@, IF ok THEN "FILE_NOT_FOUND" ELSE "DB_QUERY")]
    /\ UNCHANGED <<nextId, flaskUrlSet, authVars>>

\* the response has been sent; the slot takes the next request
Return(p) ==
    /\ req[p].pc = "done"
    /\ req' = [req EXCEPT ![p] = Idle]
    /\ UNCHANGED <<store, nextId, flaskUrlSet, authVars>>

ApiNext ==
    \E p \in Procs :
        \/ PostStart(p) \/ PostConnect(p) \/ PostParse(p)
        \/ PostFlaskResponse(p) \/ PostStreamFinish(p) \/ PostStreamError(p)
        \/ PostRespond(p)
        \/ GetStart(p) \/ GetConnect(p) \/ GetFind(p) \/ GetStreamBody(p)
        \/ DeleteStart(p) \/ DeleteConnect(p) \/ DeleteFindOne(p) \/ DeleteDelete(p)
        \/ Return(p)

(* ------------------------- AuthProvider -------------------------------- *)
\* auth-state changes the provider reports while the model runs
MaxAuthChanges == 3

\* a signed-out user, an absent profile, an unset unsubscribe handle
Null == "null"
NoListener == 0

\* versions of a profile document
ProfileVersions == {1, 2}

\* docSnap.data() of the profile document of user u
ProfileData(u, v) == [uid |-> u, version |-> v]

\* userProfile when it is null: no profile document has been delivered
NullProfile == [uid |-> Null, version |-> 0]

\* useState initial values; the effect has not run yet
AuthInit ==
    /\ user = Null /\ userId = Null /\ userProfile = NullProfile /\ loading = TRUE
    /\ profileListenerUnsubscribe = NoListener
    /\ listeners = {}
    /\ authSubscribed = FALSE
    /\ mounted = "no"
    /\ cb = "idle"
    /\ firebaseUser = Null
    /\ authChanges = 0

\* the effect body: setLoading(true) and the auth-state subscription
Mount ==
    /\ mounted = "no"
    /\ mounted' = "yes"
    /\ loading' = TRUE
    /\ authSubscribed' = TRUE
    /\ UNCHANGED <<apiVars, user, userId, userProfile, profileListenerUnsubscribe, listeners,
                   cb, firebaseUser, authChanges>>

\* faulty variant: the previous listener stays attached
Unsubscribe_Noop(ls, handle) == ls

\* profileListenerUnsubscribe(): Firestore detaches that listener
Unsubscribe(ls, handle) == {l \in ls : l.id # handle}

\* The auth callback runs to completion once it starts: while cb is not "idle" no
\* other callback runs.  Its first statement block: detach the previous listener.
AuthChangeDetach ==
    /\ authSubscribed /\ cb = "idle"
    /\ authChanges < MaxAuthChanges
    /\ \E u \in Users \cup {Null} : firebaseUser' = u
    /\ authChanges' = authChanges + 1
    /\ listeners' = IF profileListenerUnsubscribe # NoListener
                    THEN Unsubscribe(listeners, profileListenerUnsubscribe)
                    ELSE listeners
    /\ profileListenerUnsubscribe' = NoListener
    /\ cb' = "set"
    /\ UNCHANGED <<apiVars, user, userId, userProfile, loading, authSubscribed, mounted>>

\* faulty variant: the profile is not reset on an auth-state change
AuthChangeSet_KeepProfile ==
    /\ cb = "set"
    /\ user' = firebaseUser
    /\ userId' = firebaseUser
    /\ userProfile' = IF firebaseUser # Null THEN userProfile ELSE NullProfile
    /\ loading' = (firebaseUser # Null)
    /\ cb' = IF firebaseUser # Null THEN "attach" ELSE "idle"
    /\ UNCHANGED <<apiVars, profileListenerUnsubscribe, listeners, authSubscribed, mounted,
                   firebaseUser, authChanges>>

\* setUser, setUserId, setUserProfile(null), and the loading flag of either branch
AuthChangeSet ==
    /\ cb = "set"
    /\ user' = firebaseUser
    /\ userId' = firebaseUser
    /\ userProfile' = NullProfile
    /\ loading' = (firebaseUser # Null)
    /\ cb' = IF firebaseUser # Null THEN "attach" ELSE "idle"
    /\ UNCHANGED <<apiVars, profileListenerUnsubscribe, listeners, authSubscribed, mounted,
                   firebaseUser, authChanges>>

\* profileListenerUnsubscribe = onSnapshot(userDocRef, ...)
AuthChangeAttach ==
    /\ cb = "attach"
    /\ listeners' = listeners \cup {[id |-> authChanges, uid |-> firebaseUser]}
    /\ profileListenerUnsubscribe' = authChanges
    /\ cb' = "idle"
    /\ UNCHANGED <<apiVars, user, userId, userProfile, loading, authSubscribed, mounted,
                   firebaseUser, authChanges>>

\* faulty variant: a snapshot does not end loading
Snapshot_KeepLoading ==
    /\ cb = "idle"
    /\ \E l \in listeners, exists \in BOOLEAN, v \in ProfileVersions :
         userProfile' = IF exists THEN ProfileData(l.uid, v) ELSE NullProfile
    /\ UNCHANGED <<apiVars, user, userId, loading, profileListenerUnsubscribe, listeners,
                   authSubscribed, mounted, cb, firebaseUser, authChanges>>

\* Firestore delivers a snapshot to an attached listener
Snapshot ==
    /\ cb = "idle"
    /\ \E l \in listeners, exists \in BOOLEAN, v \in ProfileVersions :
         userProfile' = IF exists THEN ProfileData(l.uid, v) ELSE NullProfile
    /\ loading' = FALSE
    /\ UNCHANGED <<apiVars, user, userId, profileListenerUnsubscribe, listeners, authSubscribed,
                   mounted, cb, firebaseUser, authChanges>>

\* Firestore reports an error to an attached listener, which ends that listener
SnapshotError ==
    /\ cb = "idle"
    /\ \E l \in listeners : listeners' = listeners \ {l}
    /\ userProfile' = NullProfile
    /\ loading' = FALSE
    /\ UNCHANGED <<apiVars, user, userId, profileListenerUnsubscribe, authSubscribed,
                   mounted, cb, firebaseUser, authChanges>>

\* faulty variant: the cleanup detaches the auth-state listener only
Unmount_AuthOnly ==
    /\ mounted = "yes" /\ cb = "idle"
    /\ mounted' = "unmounted"
    /\ authSubscribed' = FALSE
    /\ UNCHANGED <<apiVars, user, userId, userProfile, loading, profileListenerUnsubscribe,
                   listeners, cb, firebaseUser, authChanges>>

\* the effect cleanup
Unmount ==
    /\ mounted = "yes" /\ cb = "idle"
    /\ mounted' = "unmounted"
    /\ authSubscribed' = FALSE
    /\ listeners' = IF profileListenerUnsubscribe # NoListener
                    THEN Unsubscribe(listeners, profileListenerUnsubscribe)
                    ELSE listeners
    /\ UNCHANGED <<apiVars, user, userId, userProfile, loading, profileListenerUnsubscribe,
                   cb, firebaseUser, authChanges>>

AuthNext ==
    \/ Mount \/ AuthChangeDetach \/ AuthChangeSet \/ AuthChangeAttach
    \/ Snapshot \/ SnapshotError \/ Unmount

(* ------------------------- specifications ------------------------------ *)
Init == ApiInit /\ AuthInit

\* the two routes, with the AuthProvider at rest
Spec == Init /\ [][ApiNext]_vars

\* the AuthProvider, with the routes at rest
SpecAuth == Init /\ [][AuthNext]_vars

\* the AuthProvider when the auth callback, once started, runs to its end (it
\* has no await), and Firestore keeps delivering snapshots or an error to a
\* listener for as long as it is attached
SpecAuthFair ==
    /\ SpecAuth
    /\ WF_vars(AuthChangeSet) /\ WF_vars(AuthChangeAttach)
    /\ WF_vars(Snapshot \/ SnapshotError)

(* ----------------------------- claims ---------------------------------- *)
Uploads == {p \in Procs : req[p].kind = "POST"}
Gets == {p \in Procs : req[p].kind = "GET"}
Deletes == {p \in Procs : req[p].kind = "DELETE"}

\* C1: when the upload handler has completed, on whatever exit path, no scratch
\* file that parseFormRevised wrote for the request is left in the temp directory.
C1_ScratchFilesRemoved ==
    \A p \in Uploads : req[p].pc = "done" => req[p].scratch = {}

\* C2 as stated: a DELETE for an object that existed when the request arrived,
\* with a (non-empty) userId different from its owner, gets 403 and the object
\* is still in the store when the request has completed.
C2_AlwaysForbidden ==
    \A p \in Deletes :
        (/\ req[p].pc = "done"
         /\ req[p].ownerAtStart # NoParam
         /\ Truthy(req[p].userId)
         /\ req[p].userId # req[p].ownerAtStart)
        => /\ req[p].status = 403
           /\ req[p].fileId.oid \in DOMAIN store

\* C2 amended: a DELETE whose metadata lookup returns the object with an owner
\* different from the supplied userId ends with 403 and removes nothing; and a
\* DELETE with a userId different from the owner the object had when the request
\* arrived never removes anything and ends with 403, or 404 when the object was
\* gone at the lookup, or 500 when the connection or the lookup failed.
C2_MismatchedOwnerForbidden ==
    \A p \in Deletes :
        /\ (req[p].found /\ req[p].foundOwner # req[p].userId)
           => (req[p].pc = "done" /\ req[p].status = 403 /\ req[p].removed = {})
        /\ (/\ req[p].ownerAtStart # NoParam
            /\ Truthy(req[p].userId)
            /\ req[p].userId # req[p].ownerAtStart)
           => /\ req[p].removed = {}
              /\ req[p].pc = "done" => req[p].status \in {403, 404, 500}
              /\ (req[p].pc = "done" /\ req[p].status = 404) => ~req[p].found
              /\ (req[p].pc = "done" /\ req[p].status = 500)
                    => req[p].errorKey \in {"DB_CONNECTION", "DB_QUERY"}

C2_Witness ==
    \E p \in Deletes :
        /\ req[p].pc = "done" /\ req[p].status = 403
        /\ req[p].found /\ req[p].foundOwner # req[p].userId
        /\ req[p].fileId.oid \in DOMAIN store

\* C3: in every step, an object that leaves the store is removed by a DELETE
\* request for that object whose non-empty userId equals the owner recorded in
\* the object's metadata, and that request answers 200.
C3_OnlyOwnerDeleteRemoves ==
    [][\A id \in DOMAIN store :
          id \notin DOMAIN store' =>
              \E p \in Procs :
                  /\ req[p].kind = "DELETE"
                  /\ req[p].fileId.oid = id
                  /\ Truthy(req[p].userId)
                  /\ req[p].userId = store[id].metadata.userId
                  /\ req'[p].removed = {id}
                  /\ req'[p].status = 200]_vars

C3_Witness ==
    \E p \in Deletes :
        /\ req[p].pc = "done" /\ req[p].status = 200
        /\ req[p].removed = {req[p].fileId.oid}
        /\ req[p].fileId.oid \notin DOMAIN store

\* the content types the upload route is documented to accept
AcceptedTypes ==
    {"application/pdf", "image/jpeg", "image/png", "image/gif", "image/webp"}

Unsupported(p) == req[p].uploadType # NoType /\ req[p].uploadType \notin AcceptedTypes

\* C4 as stated: an upload whose 'file' part has an unsupported declared type
\* (the empty type included) gets 415, writes nothing to the store and sends
\* nothing to the conversion service.
C4_AlwaysUnsupported ==
    \A p \in Uploads :
        (req[p].parsed /\ Unsupported(p))
        => /\ req[p].pc = "done" /\ req[p].status = 415
           /\ req[p].storeWrites = {} /\ req[p].flaskCalls = 0

\* C4 amended: once the form is parsed, an upload whose 'file' part has an
\* unsupported declared type gets 415 when its userId is non-empty and 400 when
\* the userId is missing or empty; either way it writes nothing to the store and
\* sends nothing to the conversion service.
C4_UnsupportedRejected ==
    \A p \in Uploads :
        (req[p].parsed /\ Unsupported(p))
        => /\ req[p].pc = "done"
           /\ req[p].status = IF Truthy(req[p].userId) THEN 415 ELSE 400
           /\ req[p].storeWrites = {} /\ req[p].flaskCalls = 0

C4_Witness ==
    \E p \in Uploads :
        /\ req[p].pc = "done" /\ req[p].status = 415
        /\ req[p].uploadType = "" /\ Truthy(req[p].userId)

ImageUpload(p) ==
    /\ req[p].parsed
    /\ req[p].uploadType \in {"image/jpeg", "image/png", "image/gif", "image/webp"}
    /\ Truthy(req[p].userId)

\* the result array has one entry, naming the one object this request wrote,
\* owned by the request's userId and of the declared type
OneStoredEntry(p) ==
    /\ Len(req[p].results) = 1
    /\ req[p].results[1].contentType = req[p].uploadType
    /\ Cardinality(req[p].storeWrites) = 1
    /\ \A w \in req[p].storeWrites :
          /\ w.id = req[p].results[1].fileId
          /\ w.id = req[p].streamId
          /\ w.doc.metadata.userId = req[p].userId
          /\ w.doc.contentType = req[p].uploadType

C6_PdfEntries ==
    \A p \in Uploads :
        req[p].flask = "ok"
        => /\ req[p].pc = "done" /\ req[p].status = 201
           /\ req[p].uploadType = SUPPORTED_PDF_TYPE
           /\ Len(req[p].results) = Len(req[p].converted)
           /\ \A i \in DOMAIN req[p].results :
                 /\ req[p].results[i].contentType = "image/png"
                 /\ req[p].results[i].fileId = req[p].converted[i].fileId
                 /\ req[p].results[i].pageNumber = req[p].converted[i].pageNumber
           /\ req[p].storeWrites = {}

C6_Witness ==
    \E p \in Uploads :
        /\ req[p].flask = "ok" /\ req[p].status = 201
        /\ Len(req[p].converted) >= 1
        /\ Len(req[p].results) = Len(req[p].converted)

\* C7 as stated: a completed GET for a well-formed id that names no object
\* (none when the request arrived, none now) has status 404 and opened no
\* download stream; a GET with a malformed id has 400 and no store access.
C7_AlwaysNotFound ==
    \A p \in Gets :
        /\ (/\ req[p].pc = "done" /\ IsValid(req[p].fileId)
            /\ req[p].ownerAtStart = NoParam
            /\ req[p].fileId.oid \notin DOMAIN store)
           => (req[p].status = 404 /\ req[p].streamsOpened = 0)
        /\ ~IsValid(req[p].fileId)
           => (req[p].status = 400 /\ req[p].storeReads = 0)

\* C7 amended: a completed GET for a well-formed id that found no object opened
\* no download stream and has status 404 when its lookup was answered, and 500
\* when the connection or the lookup failed; a GET with a malformed id has 400
\* without any store access.
C7_NotFoundOrFailure ==
    \A p \in Gets :
        /\ (req[p].pc = "done" /\ IsValid(req[p].fileId) /\ ~req[p].found)
           => /\ req[p].streamsOpened = 0
              /\ req[p].status \in {404, 500}
              /\ req[p].status = 404 <=> req[p].storeReads = 1
              /\ req[p].status = 500
                    => req[p].errorKey \in {"DB_CONNECTION", "DB_QUERY"}
        /\ ~IsValid(req[p].fileId)
           => /\ req[p].pc = "done" /\ req[p].status = 400
              /\ req[p].storeReads = 0 /\ req[p].streamsOpened = 0

C7_Witness ==
    \E p \in Gets :
        /\ req[p].pc = "done" /\ req[p].status = 404
        /\ IsValid(req[p].fileId) /\ req[p].storeReads = 1
        /\ req[p].streamsOpened = 0
        /\ store # <<>>

\* the form is known to lack a non-empty userId, or to lack a 'file' part
Incomplete(p) ==
    req[p].parsed /\ (~Truthy(req[p].userId) \/ req[p].uploadType = NoType)

\* C8 as stated: a completed upload without a non-empty userId, or with one but
\* without a 'file' part, has status 400 and wrote nothing to the store and sent
\* nothing to the conversion service.  A request that ended before its form was
\* read carries any form, so also such a form.
C8_AlwaysBadRequest ==
    \A p \in Uploads :
        (req[p].pc = "done" /\ (~req[p].parsed \/ Incomplete(p)))
        => /\ req[p].status = 400
           /\ req[p].storeWrites = {} /\ req[p].flaskCalls = 0

\* C8 amended: an upload whose parsed form lacks a non-empty userId, or has one
\* but no 'file' part, ends with 400; an upload that ends before its form is
\* parsed (no conversion-service URL, no database connection, a form that cannot
\* be read or written to the temp directory) ends with 500; in all these cases
\* nothing is written to the store and nothing is sent to the conversion service.
C8_BadRequestOrServerError ==
    \A p \in Uploads :
        /\ Incomplete(p)
           => /\ req[p].pc = "done" /\ req[p].status = 400
              /\ req[p].errorKey = IF ~Truthy(req[p].userId) THEN "MISSING_USER_ID"
                                   ELSE "NO_FILE_UPLOADED"
              /\ req[p].storeWrites = {} /\ req[p].flaskCalls = 0
        /\ ~req[p].parsed
           => /\ req[p].storeWrites = {} /\ req[p].flaskCalls = 0
              /\ req[p].pc = "done" => req[p].status = 500

C8_Witness ==
    \E p \in Uploads :
        /\ req[p].pc = "done" /\ req[p].status = 400
        /\ req[p].errorKey = "MISSING_USER_ID"
        /\ req[p].uploadType # NoType

\* C9: at most one profile listener is attached, an attached listener is
\* subscribed to the profile document of the user the last auth-state change
\* reported, and inside the auth callback the previous listener is detached
\* before the new one is attached.
C9_OneCurrentListener ==
    /\ Cardinality(listeners) <= 1
    /\ \A l \in listeners : l.uid = firebaseUser /\ l.id = profileListenerUnsubscribe
    /\ cb \in {"set", "attach"} => listeners = {}

C9_Witness ==
    /\ cb = "set" /\ listeners = {} /\ profileListenerUnsubscribe = NoListener
    /\ user = "u1" /\ loading
    /\ firebaseUser = "u2"

\* C10: an upload of an image has status 201 only when its upload stream has
\* emitted finish, so the object is written; while the stream is open, and after
\* it failed, the request has no 201.
C10_ResponseAfterFinish ==
    \A p \in Uploads :
        /\ (req[p].status = 201 /\ req[p].stream # "none")
           => (req[p].stream = "finished" /\ req[p].storeWrites # {})
        /\ req[p].pc = "streaming" => (req[p].stream = "open" /\ req[p].status = NoResp)
        /\ (req[p].pc = "done" /\ req[p].stream = "failed") => req[p].status = 500

C10_Witness ==
    \E p \in Uploads :
        /\ req[p].pc = "done" /\ req[p].status = 201
        /\ req[p].stream = "finished"

\* C11: in every step of the AuthProvider, a non-null userProfile is data of the
\* profile document of the current user (userId); the step of the auth callback
\* that sets the user leaves userProfile null; and userProfile takes a new
\* non-null value only by a snapshot delivered to the listener that is attached
\* for the current user, outside the auth callback.
C11_ProfileOfCurrentUser ==
    [][ /\ userProfile' # NullProfile => (userId' # Null /\ userProfile'.uid = userId')
        /\ cb = "set" => userProfile' = NullProfile
        /\ (userProfile' # userProfile /\ userProfile' # NullProfile)
           => /\ cb = "idle" /\ cb' = "idle"
              /\ \E l \in listeners :
                    /\ l.uid = userId /\ l.id = profileListenerUnsubscribe
                    /\ userProfile'.uid = l.uid ]_vars

C11_Witness ==
    /\ authChanges >= 2 /\ cb = "idle"
    /\ userId = "u2" /\ userProfile # NullProfile /\ userProfile.uid = "u2"
    /\ listeners # {}

\* C12: a GET that has answered 200 and whose download stream has not read the
\* file yet still has its object in the store: no DELETE removes the object
\* between the metadata lookup and the read of the download stream.
C12_GetAtomicWithDelete ==
    \A p \in Gets :
        (req[p].status = 200 /\ req[p].pc = "body")
            => req[p].fileId.oid \in DOMAIN store

\* a completed DELETE of the owner for an object that was stored when the
\* request arrived, whose connectToDb, findOne and bucket.delete calls met no
\* database failure
OwnerDelete(p) ==
    /\ req[p].kind = "DELETE" /\ req[p].pc = "done"
    /\ IsValid(req[p].fileId)
    /\ req[p].ownerAtStart # NoParam /\ req[p].userId = req[p].ownerAtStart
    /\ req[p].errorKey \notin {"DB_CONNECTION", "DB_QUERY"}

\* C13: of two completed DELETE requests of the owner for the same object, one
\* removed the object and has status 200, and the other, which found the object
\* absent when it acted, has status 404 and not 500.
C13_OneDeleteWinsOtherNotFound ==
    \A p \in Procs, q \in Procs :
        (p # q /\ OwnerDelete(p) /\ OwnerDelete(q) /\ req[p].fileId = req[q].fileId)
            => /\ {req[p].status, req[q].status} = {200, 404}
               /\ req[p].fileId.oid \in req[p].removed
                     <=> req[q].fileId.oid \notin req[q].removed

\* C14: (1) when the auth callback has completed for a change reporting no user,
\* loading is false and user and userProfile are null; (2) the auth callback for
\* a change reporting a user sets loading true with a null profile, and loading
\* turns false only at the end of a callback reporting no user or by a snapshot
\* or error delivered to the listener of the current user; (3) loading turns
\* back to true only inside an auth callback reporting a user; (4) when the
\* n-th auth change reported a user and its callback is attaching the listener
\* (loading is true), a state follows where loading is false, unless a further
\* auth change occurs or the provider is unmounted (its listener detached).
C14_LoadingUntilDelivery ==
    /\ []((cb = "idle" /\ authChanges > 0 /\ firebaseUser = Null)
            => (~loading /\ user = Null /\ userProfile = NullProfile))
    /\ [](cb = "attach"
            => (loading /\ user = firebaseUser /\ userProfile = NullProfile))
    /\ [][ /\ (loading /\ ~loading')
              => \/ cb = "set" /\ firebaseUser = Null
                 \/ /\ cb = "idle" /\ cb' = "idle"
                    /\ \E l \in listeners : l.uid = user
           /\ (~loading /\ loading') => (cb = "set" /\ firebaseUser # Null) ]_vars
    /\ \A n \in 1..MaxAuthChanges :
          (authChanges = n /\ cb = "attach")
              ~> (~loading \/ authChanges # n \/ mounted = "unmounted")

C14_Witness ==
    /\ authChanges = MaxAuthChanges /\ cb = "idle" /\ mounted = "yes"
    /\ user = "u1" /\ listeners # {}
    /\ ~loading /\ userProfile = NullProfile

\* C15: once the AuthProvider is unmounted, the auth-state listener and every
\* profile listener are detached, and no step changes user, userId,
\* userProfile or loading.
C15_UnmountedIsQuiet ==
    /\ [](mounted = "unmounted" => (~authSubscribed /\ listeners = {}))
    /\ [][mounted = "unmounted"
            => UNCHANGED <<user, userId, userProfile, loading>>]_vars

C15_Witness ==
    /\ mounted = "unmounted" /\ cb = "idle"
    /\ authChanges >= 2 /\ user = "u1" /\ loading
    /\ profileListenerUnsubscribe # NoListener /\ listeners = {}

====
